---- MODULE Spec2Model ----
(***************************************************************************)
(* Model of the KEGG stoichiometry pipeline.                               *)
(*                                                                         *)
(*   scrape_data.py : parse_equation, build_stoich_matrix   (Spec)         *)
(*   load_data.py   : index maps, subset projection, derived matrices      *)
(*                    (LoadSpec)                                           *)
(*                                                                         *)
(* Text model.  get_equations strips the equation text, so it has no       *)
(* leading or trailing blanks.  An equation is modelled as the sequence    *)
(* of its blank-free tokens, joined by single spaces; a token is the       *)
(* sequence of its characters.  The empty sequence is the falsy result of  *)
(* get_equations (None or "").                                             *)
(***************************************************************************)
EXTENDS Integers, Sequences, FiniteSets, TLC

\* ------------------------------------------------------------------ bounds

\* longest equation text, in tokens
MaxTokens == 5
\* total amount of equation text fetched in one run, in tokens
MaxText == 7
\* longest list of reaction ids handed to build_stoich_matrix
MaxRxns == 2
\* most cells of the matrix read by load_data.py
MaxCells == 3
\* largest absolute value of a cell of that matrix
MaxCoef == 2
\* total size of load_data.py's input: matrix cells plus subset list entries
MaxInput == 5

\* ------------------------------------------------------------ text helpers

T_rev  == <<"<", "=", ">">>
T_irr  == <<"=", ">">>
T_plus == <<"+">>
T_two  == <<"2">>
T_C1   == <<"C", "1">>
T_G2   == <<"G", "2">>

Tokens == {T_rev, T_irr, T_plus, T_two, T_C1, T_G2}

\* the texts get_equations can return: n tokens joined by single blanks
EquationsOfLength(n) == [1..n -> Tokens]

\* the reaction ids of a pathway, each listed once (get_reactions)
RxnIds == <<"R1", "R2", "R3", "R4">>

\* code point of a character (str comparison in sorted())
CharCode(c) ==
    CASE c = "+" -> 43
      [] c = "1" -> 49
      [] c = "2" -> 50
      [] c = "<" -> 60
      [] c = "=" -> 61
      [] c = ">" -> 62
      [] c = "C" -> 67
      [] c = "G" -> 71

\* str < str
RECURSIVE StrLess(_, _)
StrLess(a, b) ==
    IF a = <<>> THEN b # <<>>
    ELSE IF b = <<>> THEN FALSE
    ELSE IF CharCode(Head(a)) # CharCode(Head(b))
         THEN CharCode(Head(a)) < CharCode(Head(b))
    ELSE StrLess(Tail(a), Tail(b))

\* pat in tok   (substring test on one blank-free token)
TokContains(tok, pat) ==
    \E k \in 1..(Len(tok) - Len(pat) + 1) :
        SubSeq(tok, k, k + Len(pat) - 1) = pat

\* pat in text, for a pattern without blanks
TextContains(text, pat) ==
    \E k \in 1..Len(text) : TokContains(text[k], pat)

\* str.isdigit()
IsDigitChar(c) == c \in {"0", "1", "2", "3", "4", "5", "6", "7", "8", "9"}
isdigit(tok) == tok # <<>> /\ \A k \in 1..Len(tok) : IsDigitChar(tok[k])

DigitValue(c) ==
    CASE c = "0" -> 0 [] c = "1" -> 1 [] c = "2" -> 2 [] c = "3" -> 3
      [] c = "4" -> 4 [] c = "5" -> 5 [] c = "6" -> 6 [] c = "7" -> 7
      [] c = "8" -> 8 [] c = "9" -> 9

\* int(tok) for a digit string
RECURSIVE int(_)
int(tok) ==
    IF tok = <<>> THEN 0
    ELSE 10 * int(SubSeq(tok, 1, Len(tok) - 1)) + DigitValue(tok[Len(tok)])

\* met.startswith(("C", "G"))
startswith_CG(tok) == tok # <<>> /\ tok[1] \in {"C", "G"}

\* text.split(" " + sep + " "): the separator matches a token equal to sep
\* that has a blank on both sides; matches are taken left to right and do
\* not overlap, so a token right after a match cannot match (its leading
\* blank is already consumed).
RECURSIVE SplitFrom(_, _, _, _)
SplitFrom(text, sep, k, cur) ==
    IF k > Len(text) THEN <<cur>>
    ELSE IF text[k] = sep /\ k > 1 /\ k < Len(text) /\ cur # <<>>
         THEN <<cur>> \o SplitFrom(text, sep, k + 1, <<>>)
    ELSE SplitFrom(text, sep, k + 1, Append(cur, text[k]))

split(text, sep) == SplitFrom(text, sep, 1, <<>>)

\* ------------------------------------------------- dict (insertion ordered)

\* a dict is a sequence of <<key, value>> pairs with distinct keys
Keys(d) == [k \in 1..Len(d) |-> d[k][1]]
KeySet(d) == {d[k][1] : k \in 1..Len(d)}
HasKey(d, key) == key \in KeySet(d)
Get(d, key, default) ==
    IF HasKey(d, key)
    THEN d[CHOOSE k \in 1..Len(d) : d[k][1] = key][2]
    ELSE default
\* d[key] = value: an existing key keeps its position
Put(d, key, value) ==
    IF HasKey(d, key)
    THEN [k \in 1..Len(d) |-> IF d[k][1] = key THEN <<key, value>> ELSE d[k]]
    ELSE Append(d, <<key, value>>)

\* ------------------------------------------------------------------- state

VARIABLES
    reaction_ids,     \* argument of build_stoich_matrix
    i,                \* position of the for loop in reaction_ids (1-based)
    reaction_stoich,  \* dict: directed reaction id -> stoichiometry dict
    all_metabolites,  \* set of metabolite ids
    stoich_matrix,    \* the DataFrame [index, columns, values], once built
    pc,               \* "loop", "built", "raised" (an exception left the function)
    used,             \* tokens of equation text fetched so far
    fetched,          \* history: what each fetched equation text said
    lpc,              \* load_data.py: position in the script
    df,               \* load_data.py: stoich_matrix_df read from the CSV
    maps,             \* load_data.py: met_map, inv_met_map, rxn_map, inv_rxn_map
    subsets,          \* load_data.py: Currency, Energy, Core and their inputs
    derived           \* load_data.py: rho, pi, rxnMat, prodMat, sumRxnVec, sumProdVec

buildVars == <<reaction_ids, i, reaction_stoich, all_metabolites, stoich_matrix,
               pc, used, fetched>>
loadVars == <<lpc, df, maps, subsets, derived>>
vars == <<reaction_ids, i, reaction_stoich, all_metabolites, stoich_matrix,
          pc, used, fetched, lpc, df, maps, subsets, derived>>

None == [none |-> TRUE]

\* ---------------------------------------------------------- parse_equation

\* term.strip().split(): the non-empty blank-separated pieces of a term
whitespace_split(term) == SelectSeq(term, LAMBDA t : t # <<>>)

\* a term that always counts once (the integer prefix is ignored)
coeff_of_ignoring_prefix(parts) == 1

\* "coeff = int(parts[0]) if parts[0].isdigit() else 1"
coeff_of(parts) == IF isdigit(parts[1]) THEN int(parts[1]) ELSE 1

\* one pass of "for term in side.split(' + ')" with the given sign
RECURSIVE AccumulateTerms(_, _, _, _)
AccumulateTerms(stoich, terms, k, sign) ==
    IF k > Len(terms) THEN stoich
    ELSE LET parts == whitespace_split(terms[k])
         IN IF Len(parts) = 0
            THEN AccumulateTerms(stoich, terms, k + 1, sign)
            ELSE LET coeff == coeff_of(parts)
                     met   == parts[Len(parts)]
                 IN IF startswith_CG(met)
                    THEN AccumulateTerms(
                            Put(stoich, met, Get(stoich, met, 0) + sign * coeff),
                            terms, k + 1, sign)
                    ELSE AccumulateTerms(stoich, terms, k + 1, sign)

\* the filter on the net coefficient left out
DropZero_keeps_all(stoich) == stoich

\* "Drop any metabolites with net coefficient 0"
DropZero(stoich) == SelectSeq(stoich, LAMBDA p : p[2] # 0)

\* the separator parse_equation splits on, or None when it returns [], []
Separator(equation) ==
    IF TextContains(equation, T_rev) THEN T_rev
    ELSE IF TextContains(equation, T_irr) THEN T_irr
    ELSE None

\* the result of parse_equation: the dict zip(mets, coeffs), or raised when
\* "lhs, rhs = equation.split(...)" does not get exactly two pieces (ValueError)
parse_equation(equation) ==
    IF Separator(equation) = None
    THEN [raised |-> FALSE, stoich |-> <<>>]
    ELSE LET sides == split(equation, Separator(equation))
         IN IF Len(sides) # 2
            THEN [raised |-> TRUE, stoich |-> <<>>]
            ELSE LET lhs == sides[1]
                     rhs == sides[2]
                     s1  == AccumulateTerms(<<>>, split(lhs, T_plus), 1, -1)
                     s2  == AccumulateTerms(s1, split(rhs, T_plus), 1, 1)
                 IN [raised |-> FALSE, stoich |-> DropZero(s2)]

\* -------------------------------------------------------- build_stoich_matrix

forward_id(rxn_id) == <<rxn_id, "_f">>
reverse_id(rxn_id) == <<rxn_id, "_r">>

\* {m: -c for m, c in zip(mets, coeffs)}
Negated(stoich) == [k \in 1..Len(stoich) |-> <<stoich[k][1], 0 - stoich[k][2]>>]

\* "if mets: reaction_stoich[forward_id] = dict(zip(mets, coeffs))"
WithForward(rs, rxn_id, stoich) ==
    IF Len(stoich) > 0 THEN Put(rs, forward_id(rxn_id), stoich) ELSE rs

\* the reverse record stored with the forward signs
WithReverse_not_negated(rs, rxn_id, eqn, stoich) ==
    IF TextContains(eqn, T_rev)
    THEN Put(rs, reverse_id(rxn_id), stoich)
    ELSE rs

\* the reverse record stored for either separator ("=>" in eqn)
WithReverse_on_any_arrow(rs, rxn_id, eqn, stoich) ==
    IF TextContains(eqn, T_irr)
    THEN Put(rs, reverse_id(rxn_id), Negated(stoich))
    ELSE rs

\* "if '<=>' in eqn: reaction_stoich[reverse_id] = {m: -c ...}"
WithReverse(rs, rxn_id, eqn, stoich) ==
    IF TextContains(eqn, T_rev)
    THEN Put(rs, reverse_id(rxn_id), Negated(stoich))
    ELSE rs

\* sorted(S) for a set of strings
RECURSIVE sorted(_)
sorted(S) ==
    IF S = {} THEN <<>>
    ELSE LET m == CHOOSE x \in S : \A y \in S \ {x} : StrLess(x, y)
         IN <<m>> \o sorted(S \ {m})

\* pd.DataFrame(0, index, columns) followed by the .loc assignments
DataFrame(rs, mets) ==
    LET index == sorted(mets)
    IN [index   |-> index,
        columns |-> Keys(rs),
        values  |-> [r \in 1..Len(index) |->
                       [c \in 1..Len(rs) |-> Get(rs[c][2], index[r], 0)]]]

\* ----- history: what the equation text of a reaction says (specification side)

CompoundTokens == {t \in Tokens : startswith_CG(t)}

\* the coefficient a term gives to metabolite m: its integer prefix (1 when
\* there is none) if the term names m, else 0
TermCoefficient(term, m) ==
    IF Len(term) > 0 /\ term[Len(term)] = m
    THEN (IF isdigit(term[1]) THEN int(term[1]) ELSE 1)
    ELSE 0

RECURSIVE SideSum(_, _)
SideSum(terms, m) ==
    IF terms = <<>> THEN 0
    ELSE TermCoefficient(Head(terms), m) + SideSum(Tail(terms), m)

\* (sum over right-hand-side terms) - (sum over left-hand-side terms), for a
\* text with a left-hand and a right-hand side
NetCoefficient(lhs, rhs, m) ==
    SideSum(split(rhs, T_plus), m) - SideSum(split(lhs, T_plus), m)

Said(rxn_id, eqn) ==
    LET sep   == IF TextContains(eqn, T_rev) THEN T_rev ELSE T_irr
        sides == split(eqn, sep)
        \* the text has a separator ("<=>" contains "=>") with one left-hand
        \* and one right-hand side
        two   == TextContains(eqn, T_irr) /\ Len(sides) = 2
    IN [id           |-> rxn_id,
        reversible   |-> TextContains(eqn, T_rev),
        irreversible |-> ~TextContains(eqn, T_rev) /\ TextContains(eqn, T_irr),
        named        |-> IF two
                         THEN {m \in CompoundTokens :
                                 \E side \in 1..2 :
                                   \E t \in 1..Len(split(sides[side], T_plus)) :
                                     TermCoefficient(split(sides[side], T_plus)[t], m) # 0}
                         ELSE {},
        net          |-> [m \in CompoundTokens |->
                            IF two THEN NetCoefficient(sides[1], sides[2], m) ELSE 0]]

\* ------------------------------------------------------------ Init, actions

LoadIdle ==
    /\ lpc = "idle"
    /\ df = None
    /\ maps = None
    /\ subsets = None
    /\ derived = None

Init ==
    /\ \E n \in 0..MaxRxns : reaction_ids = SubSeq(RxnIds, 1, n)
    /\ i = 1
    /\ reaction_stoich = <<>>
    /\ all_metabolites = {}
    /\ stoich_matrix = None
    /\ pc = "loop"
    /\ used = 0
    /\ fetched = <<>>
    /\ LoadIdle

\* "if not eqn: continue"
SkipReaction ==
    /\ pc = "loop" /\ i <= Len(reaction_ids)
    /\ i' = i + 1
    /\ fetched' = Append(fetched, Said(reaction_ids[i], <<>>))
    /\ UNCHANGED <<reaction_ids, reaction_stoich, all_metabolites, stoich_matrix,
                   pc, used>>
    /\ UNCHANGED loadVars

\* one iteration of the for loop on a non-empty equation text: either
\* parse_equation raises ValueError, which nothing catches, and the function
\* is left; or the records are stored and the loop reaches time.sleep
ProcessReaction ==
    /\ pc = "loop" /\ i <= Len(reaction_ids)
    /\ \E n \in 1..MaxTokens : \E eqn \in EquationsOfLength(n) :
        /\ used + n <= MaxText
        /\ LET rxn_id == reaction_ids[i]
               parsed == parse_equation(eqn)
           IN IF parsed.raised
              THEN /\ pc' = "raised"
                   /\ UNCHANGED <<i, reaction_stoich, all_metabolites>>
              ELSE /\ reaction_stoich' =
                         WithReverse(WithForward(reaction_stoich, rxn_id, parsed.stoich),
                                     rxn_id, eqn, parsed.stoich)
                   /\ all_metabolites' = all_metabolites \cup KeySet(parsed.stoich)
                   /\ i' = i + 1
                   /\ UNCHANGED pc
        /\ used' = used + Len(eqn)
        /\ fetched' = Append(fetched, Said(reaction_ids[i], eqn))
    /\ UNCHANGED <<reaction_ids, stoich_matrix>>
    /\ UNCHANGED loadVars

\* "Build DataFrame" and return
Assemble ==
    /\ pc = "loop" /\ i > Len(reaction_ids)
    /\ stoich_matrix' = DataFrame(reaction_stoich, all_metabolites)
    /\ pc' = "built"
    /\ UNCHANGED <<reaction_ids, i, reaction_stoich, all_metabolites, used, fetched>>
    /\ UNCHANGED loadVars

Next == SkipReaction \/ ProcessReaction \/ Assemble

Spec == Init /\ [][Next]_vars

\* ------------------------------------------------------------- load_data.py

MetIds == <<"C00001", "C00002", "C00003", "C00004", "C00005", "C00006">>
ColIds == <<"R00001_f", "R00001_r", "R00002_f", "R00003_f", "R00003_r", "R00004_f">>
\* identifiers the curated subset files may list; "C99999" is in no matrix
ListedIds == {"C00001", "C00002", "C99999"}

\* the CSV written by get_matrix: distinct row and column labels, integer cells
Shapes == {s \in (1..MaxCells) \X (1..MaxCells) : s[1] * s[2] <= MaxCells}
Frames ==
    UNION {{[index   |-> SubSeq(MetIds, 1, s[1]),
             columns |-> SubSeq(ColIds, 1, s[2]),
             values  |-> v] :
               v \in [1..s[1] -> [1..s[2] -> (0 - MaxCoef)..MaxCoef]]} :
           s \in Shapes}

Cells(f) == Len(f.index) * Len(f.columns)

\* the lists of at most n identifiers
IdLists(n) == UNION {[1..k -> ListedIds] : k \in 0..n}

\* {key(x): value(x) for idx, x in enumerate(xs)}, built in iteration order
RECURSIVE DictOf(_, _)
DictOf(pairs, d) ==
    IF pairs = <<>> THEN d
    ELSE DictOf(Tail(pairs), Put(d, Head(pairs)[1], Head(pairs)[2]))

\* enumerate(xs, 1): idx counted from 1
enumerate_from_1(xs) == [k \in 1..Len(xs) |-> <<k, xs[k]>>]

\* enumerate(xs): pairs (idx, x) with idx counted from 0
enumerate(xs) == [k \in 1..Len(xs) |-> <<k - 1, xs[k]>>]

\* {x: idx for idx, x in enumerate(xs)}
IdToIndex(xs) ==
    DictOf([k \in 1..Len(xs) |-> <<enumerate(xs)[k][2], enumerate(xs)[k][1]>>], <<>>)

\* {idx: x for x, idx in m.items()}
Inverse(m) == DictOf([k \in 1..Len(m) |-> <<m[k][2], m[k][1]>>], <<>>)

\* [met_map.get(i, -1) for i in ids]: unknown identifiers not skipped
RECURSIVE Project_no_skip(_, _)
Project_no_skip(met_map, ids) ==
    IF ids = <<>> THEN <<>>
    ELSE <<Get(met_map, Head(ids), 0 - 1)>> \o Project_no_skip(met_map, Tail(ids))

\* [met_map[i] for i in ids if i in met_map]
RECURSIVE Project(_, _)
Project(met_map, ids) ==
    IF ids = <<>> THEN <<>>
    ELSE IF HasKey(met_map, Head(ids))
         THEN <<Get(met_map, Head(ids), None)>> \o Project(met_map, Tail(ids))
    ELSE Project(met_map, Tail(ids))

\* clip(min = 0.0) where clip(max = 0.0) is meant
clip_max0_as_min(a) == [r \in DOMAIN a |-> [c \in DOMAIN a[r] |->
                           IF a[r][c] < 0 THEN 0 ELSE a[r][c]]]

\* ndarray.clip(max = 0.0), ndarray.clip(min = 0.0), elementwise
clip_max0(a) == [r \in DOMAIN a |-> [c \in DOMAIN a[r] |->
                    IF a[r][c] > 0 THEN 0 ELSE a[r][c]]]
clip_min0(a) == [r \in DOMAIN a |-> [c \in DOMAIN a[r] |->
                    IF a[r][c] < 0 THEN 0 ELSE a[r][c]]]
\* (a != 0) * 1
nonzero(a) == [r \in DOMAIN a |-> [c \in DOMAIN a[r] |->
                    IF a[r][c] # 0 THEN 1 ELSE 0]]

RECURSIVE SumSeq(_)
SumSeq(xs) == IF xs = <<>> THEN 0 ELSE Head(xs) + SumSeq(Tail(xs))

\* np.sum(a, axis = 1): the sum along each row of a 2-D array
sum_axis1(a) == [r \in DOMAIN a |-> SumSeq(a[r])]

LoadInit ==
    /\ reaction_ids = <<>>
    /\ i = 1
    /\ reaction_stoich = <<>>
    /\ all_metabolites = {}
    /\ stoich_matrix = None
    /\ pc = "idle"
    /\ used = 0
    /\ fetched = <<>>
    /\ lpc = "read"
    /\ df = None
    /\ maps = None
    /\ subsets = None
    /\ derived = None

\* pd.read_csv("map01100_stoich_matrix.csv", index_col=0)
ReadCsv ==
    /\ lpc = "read"
    /\ \E f \in Frames : df' = f
    /\ lpc' = "maps"
    /\ UNCHANGED <<maps, subsets, derived>>
    /\ UNCHANGED buildVars

\* metabolite and reaction dictionaries
BuildMaps ==
    /\ lpc = "maps"
    /\ LET met_map == IdToIndex(df.index)
           rxn_map == IdToIndex(df.columns)
       IN maps' = [met_map     |-> met_map,
                   inv_met_map |-> Inverse(met_map),
                   rxn_map     |-> rxn_map,
                   inv_rxn_map |-> Inverse(rxn_map)]
    /\ lpc' = "project"
    /\ UNCHANGED <<df, subsets, derived>>
    /\ UNCHANGED buildVars

\* currency, nutrient and core metabolites; mets and rxns
ProjectSubsets ==
    /\ lpc = "project"
    /\ \E cur \in IdLists(MaxInput - Cells(df)) :
       \E en \in IdLists(MaxInput - Cells(df) - Len(cur)) :
       \E co \in IdLists(MaxInput - Cells(df) - Len(cur) - Len(en)) :
        /\ subsets' = [indices_of_currency_mets |-> cur,
                       indices_of_energy_mets   |-> en,
                       indices_of_core_mets     |-> co,
                       Currency |-> Project(maps.met_map, cur),
                       Energy   |-> Project(maps.met_map, en),
                       Core     |-> Project(maps.met_map, co),
                       mets     |-> [k \in 1..Len(maps.met_map) |-> maps.met_map[k][2]],
                       rxns     |-> [k \in 1..Len(maps.rxn_map) |-> maps.rxn_map[k][2]]]
    /\ lpc' = "derive"
    /\ UNCHANGED <<df, maps, derived>>
    /\ UNCHANGED buildVars

\* reactant and product matrices and vectors
Derive ==
    /\ lpc = "derive"
    /\ LET rho     == clip_max0(df.values)
           pi      == clip_min0(df.values)
           rxnMat  == nonzero(rho)
           prodMat == nonzero(pi)
       IN derived' = [rho |-> rho, pi |-> pi,
                      rxnMat |-> rxnMat, prodMat |-> prodMat,
                      sumRxnVec  |-> sum_axis1(rxnMat),
                      sumProdVec |-> sum_axis1(prodMat)]
    /\ lpc' = "done"
    /\ UNCHANGED <<df, maps, subsets>>
    /\ UNCHANGED buildVars

LoadNext == ReadCsv \/ BuildMaps \/ ProjectSubsets \/ Derive

LoadSpec == LoadInit /\ [][LoadNext]_vars

\* ------------------------------------------------------ claims: scrape_data

Fetched == 1..Len(fetched)

\* the equation text of the k-th fetched reaction nets to at least one metabolite
NetsToSomething(k) == \E m \in CompoundTokens : fetched[k].net[m] # 0

\* the directed records kept for a base reaction id
RecordsOf(rxn_id) == {key \in KeySet(reaction_stoich) : key[1] = rxn_id}

CoefficientIn(key, m) == Get(Get(reaction_stoich, key, <<>>), m, 0)

\* C1 (as claimed): once the matrix is built, every column has a non-zero
\* entry, and a reaction whose equation nets to no metabolite has neither an
\* _f nor an _r record.
C1_NoEmptyColumn ==
    pc = "built" =>
        /\ \A c \in 1..Len(stoich_matrix.columns) :
              \E r \in 1..Len(stoich_matrix.index) : stoich_matrix.values[r][c] # 0
        /\ \A k \in Fetched : ~NetsToSomething(k) => RecordsOf(fetched[k].id) = {}

C3_IrreversibleHasOneRecord ==
    \A k \in Fetched :
        fetched[k].irreversible /\ pc # "raised" =>
            RecordsOf(fetched[k].id) = {forward_id(fetched[k].id)}

\* C3 (amended): a reaction whose text contains "=>" and no "<=>" never has an
\* _r record; it has exactly one record, _f, when the equation nets to at least
\* one metabolite, and no record otherwise.
C3_IrreversibleHasAtMostForward ==
    \A k \in Fetched :
        fetched[k].irreversible =>
            RecordsOf(fetched[k].id) =
                IF NetsToSomething(k) THEN {forward_id(fetched[k].id)} ELSE {}

\* an irreversible reaction has been recorded, forward only, after a
\* reversible one
C3_Witness ==
    \E k \in Fetched :
        /\ fetched[k].irreversible
        /\ NetsToSomething(k)
        /\ RecordsOf(fetched[k].id) = {forward_id(fetched[k].id)}
        /\ Len(reaction_stoich) = 3
        /\ pc = "built"

\* C5 (as claimed): parse_equation returns for every equation text, and
\* build_stoich_matrix goes on with the remaining reactions: no exception
\* leaves the loop.
C5_NoParseAborts == pc # "raised"

\* C6: every cell of a forward column is the net coefficient of the row's
\* metabolite in that reaction's equation text (right-hand-side terms minus
\* left-hand-side terms, a missing integer prefix counting as 1), hence 0
\* exactly when the metabolite does not take part or nets to zero; only
\* tokens starting with C or G are rows.
C6_ForwardCellIsNetCoefficient ==
    pc = "built" =>
      /\ \A r \in 1..Len(stoich_matrix.index) : startswith_CG(stoich_matrix.index[r])
      /\ \A c \in 1..Len(stoich_matrix.columns) :
            stoich_matrix.columns[c][2] = "_f" =>
                \E k \in Fetched :
                    /\ fetched[k].id = stoich_matrix.columns[c][1]
                    /\ \A r \in 1..Len(stoich_matrix.index) :
                          stoich_matrix.values[r][c]
                            = fetched[k].net[stoich_matrix.index[r]]

\* a forward column holds a coefficient of magnitude 2 and a zero cell
C6_Witness ==
    /\ pc = "built"
    /\ \E c \in 1..Len(stoich_matrix.columns) :
        /\ stoich_matrix.columns[c][2] = "_f"
        /\ \E r \in 1..Len(stoich_matrix.index) : stoich_matrix.values[r][c] = 0 - 2
        /\ \E r \in 1..Len(stoich_matrix.index) : stoich_matrix.values[r][c] = 0

\* C7: no record of reaction_stoich, forward or reverse, stores a coefficient
\* 0; a metabolite whose two sides cancel is in neither record of its reaction.
C7_NoZeroCoefficient ==
    /\ \A c \in 1..Len(reaction_stoich) :
          \A j \in 1..Len(reaction_stoich[c][2]) : reaction_stoich[c][2][j][2] # 0
    /\ \A k \in Fetched :
          \A m \in fetched[k].named :
              fetched[k].net[m] = 0 =>
                  \A key \in RecordsOf(fetched[k].id) :
                      ~HasKey(Get(reaction_stoich, key, <<>>), m)

\* a recorded reaction names a metabolite on both sides that cancels, beside
\* one that does not
C7_Witness ==
    \E k \in Fetched :
        /\ \E m \in fetched[k].named : fetched[k].net[m] = 0
        /\ NetsToSomething(k)
        /\ HasKey(reaction_stoich, forward_id(fetched[k].id))

\* ------------------------------------------------------- claims: load_data

Rows == 1..Len(df.index)
Cols == 1..Len(df.columns)

\* C4 (as claimed): sumRxnVec and sumProdVec have one entry per reaction
\* column; entry j counts the negative, respectively positive, cells of
\* column j.
C4_DegreePerReaction ==
    lpc = "done" =>
        /\ Len(derived.sumRxnVec) = Len(df.columns)
        /\ Len(derived.sumProdVec) = Len(df.columns)
        /\ \A j \in Cols :
            /\ derived.sumRxnVec[j] = Cardinality({r \in Rows : df.values[r][j] < 0})
            /\ derived.sumProdVec[j] = Cardinality({r \in Rows : df.values[r][j] > 0})

\* rho + pi = stoich_matrix and rxnMat * prodMat = 0, cell by cell
Decomposes(d, m) ==
    \A r \in DOMAIN m : \A c \in DOMAIN m[r] :
        /\ d.rho[r][c] + d.pi[r][c] = m[r][c]
        /\ d.rxnMat[r][c] * d.prodMat[r][c] = 0
        /\ d.rho[r][c] = (IF m[r][c] < 0 THEN m[r][c] ELSE 0)
        /\ d.pi[r][c] = (IF m[r][c] > 0 THEN m[r][c] ELSE 0)
        /\ d.rxnMat[r][c] = (IF d.rho[r][c] # 0 THEN 1 ELSE 0)
        /\ d.prodMat[r][c] = (IF d.pi[r][c] # 0 THEN 1 ELSE 0)

\* C8: for every cell, rho + pi equals the matrix cell and rxnMat * prodMat is
\* 0, rho keeping the negative and pi the positive entries, rxnMat and prodMat
\* their non-zero indicators; computing them leaves the matrix unchanged.
C8_Decomposition ==
    [][lpc = "derive" /\ lpc' = "done" => Decomposes(derived', df.values) /\ df' = df]_vars

\* the derived matrices exist for a matrix with a cell of each sign
C8_Witness ==
    /\ lpc = "done"
    /\ \E r \in Rows : \E c \in Cols : df.values[r][c] = 0 - 2
    /\ \E r \in Rows : \E c \in Cols : df.values[r][c] = 2
    /\ \E r \in Rows : \E c \in Cols : df.values[r][c] = 0

\* the 0-based position of an identifier in a row or column order
PositionIn(order, id) == (CHOOSE k \in 1..Len(order) : order[k] = id) - 1
IsIn(order, id) == \E k \in 1..Len(order) : order[k] = id

\* the listed identifiers that are rows of the matrix, in list order
KnownOf(ids) == SelectSeq(ids, LAMBDA x : IsIn(df.index, x))

ProjectsRight(ids, result) ==
    /\ Len(result) = Len(KnownOf(ids))
    /\ \A k \in 1..Len(result) : result[k] = PositionIn(df.index, KnownOf(ids)[k])
    /\ Cardinality({k \in 1..Len(ids) : ~IsIn(df.index, ids[k])}) = 1
          => Len(result) = Len(ids) - 1

\* C9: each of Currency, Energy and Core holds the internal indices of exactly
\* the listed identifiers that are keys of met_map, in list order; identifiers
\* not in met_map are skipped, and a list with exactly one unknown identifier
\* gives a result shorter by one.
C9_Projection ==
    lpc \in {"derive", "done"} =>
        /\ ProjectsRight(subsets.indices_of_currency_mets, subsets.Currency)
        /\ ProjectsRight(subsets.indices_of_energy_mets, subsets.Energy)
        /\ ProjectsRight(subsets.indices_of_core_mets, subsets.Core)

\* a list naming two rows out of row order around an unknown identifier
C9_Witness ==
    /\ lpc = "done"
    /\ subsets.indices_of_currency_mets = <<"C00002", "C99999", "C00001">>
    /\ subsets.Currency = <<1, 0>>

\* C10: for every row and column identifier, the inverse map takes the index
\* the forward map assigns back to the identifier, and that index is the
\* identifier's 0-based position in the row or column order.
C10_RoundTrip ==
    lpc \in {"project", "derive", "done"} =>
        /\ \A k \in Rows :
            /\ Get(maps.met_map, df.index[k], 0 - 1) = k - 1
            /\ Get(maps.inv_met_map, Get(maps.met_map, df.index[k], 0 - 1), "")
                 = df.index[k]
        /\ \A k \in Cols :
            /\ Get(maps.rxn_map, df.columns[k], 0 - 1) = k - 1
            /\ Get(maps.inv_rxn_map, Get(maps.rxn_map, df.columns[k], 0 - 1), "")
                 = df.columns[k]

\* the maps exist for a matrix with several rows, and for one with several columns
C10_Witness ==
    /\ lpc = "done"
    /\ Len(df.index) + Len(df.columns) >= 4

====
